---- MODULE Spec2Model ----
(***************************************************************************)
(* Model of normalize_lasher.py: a two-stage batch tool that renames real  *)
(* .jpg files to a 6-digit canonical name (normalize_real_files) and then  *)
(* retargets .jpg symlinks to the canonical file of their own directory    *)
(* (fix_symlinks).                                                         *)
(*                                                                         *)
(* Strings are sequences of one-character strings, so that the regular     *)
(* expression scan, int() and the 06d format are computed, not assumed.    *)
(* One directory is modelled: every rename and every retarget of the tool  *)
(* stays inside the directory of the entry it acts on.                     *)
(***************************************************************************)
EXTENDS Integers, Sequences, FiniteSets, TLC

VARIABLES
    fs,          \* the directory: present name -> [kind, val]
    fs0,         \* the tree the first run started from
    dry_run,     \* main: dry = not args.apply
    pc,          \* position of the running process
    todo,        \* entries of the current rglob("*.jpg") not yet yielded
    changes,     \* normalize_real_files: queued (old, new)
    conflicts,   \* normalize_real_files: (p, newp) skipped
    i,           \* index of the rename loop over changes
    fixed,       \* fix_symlinks: links already correct
    retargeted,  \* fix_symlinks: (p, rel)
    broken,      \* fix_symlinks: (p, current_target, target_canonical)
    errors,      \* "[ERROR]" lines printed by the two except clauses
    cur,         \* fix_symlinks: (p, rel) of the link being replaced
    run,         \* 1 = first invocation, 2 = second invocation
    prev,        \* what the first invocation reported and left behind
    faults,      \* failing system calls the environment may still inject
    name,        \* extract_num6: its argument
    num6         \* extract_num6: its result

vars == <<fs, fs0, dry_run, pc, todo, changes, conflicts, i, fixed,
          retargeted, broken, errors, cur, run, prev, faults, name, num6>>

-----------------------------------------------------------------------------
(* Strings *)

DigitChars == <<"0", "1", "2", "3", "4", "5", "6", "7", "8", "9">>

IsDigit(c) == \E d \in 1..10 : DigitChars[d] = c

DigitVal(c) == (CHOOSE d \in 1..10 : DigitChars[d] = c) - 1

None == <<"None">>

\* Python's str.lower on the characters that occur in the model.
LowerChar(c) == CASE c = "J" -> "j" [] c = "P" -> "p" [] c = "G" -> "g" [] OTHER -> c

Lower(s) == [k \in 1..Len(s) |-> LowerChar(s[k])]

StartsWith(s, pre) == Len(s) >= Len(pre) /\ SubSeq(s, 1, Len(pre)) = pre

EndsWith(s, suf) ==
    Len(s) >= Len(suf) /\ SubSeq(s, Len(s) - Len(suf) + 1, Len(s)) = suf

RECURSIVE Join(_)
Join(ss) == IF ss = <<>> THEN <<>> ELSE Head(ss) \o Join(Tail(ss))

-----------------------------------------------------------------------------
(* extract_num6 *)

\* re.compile(r'(\d+)').findall: the maximal digit runs, left to right.
\* acc holds the runs closed so far, run the run being read.
RECURSIVE FindAllFrom(_, _, _, _)
FindAllFrom(s, k, acc, r) ==
    IF k > Len(s)
    THEN IF r = <<>> THEN acc ELSE Append(acc, r)
    ELSE IF IsDigit(s[k])
         THEN FindAllFrom(s, k + 1, acc, Append(r, s[k]))
         ELSE FindAllFrom(s, k + 1, IF r = <<>> THEN acc ELSE Append(acc, r), <<>>)

DIGITS_findall(s) == FindAllFrom(s, 1, <<>>, <<>>)

\* int(s) for a non-empty string of decimal digits.
RECURSIVE IntOf(_)
IntOf(s) ==
    IF s = <<>> THEN 0
    ELSE 10 * IntOf(SubSeq(s, 1, Len(s) - 1)) + DigitVal(s[Len(s)])

\* str(n) for n >= 0.
RECURSIVE Str(_)
Str(n) ==
    IF n < 10 THEN <<DigitChars[n + 1]>>
    ELSE Append(Str(n \div 10), DigitChars[(n % 10) + 1])

Width == 6

RECURSIVE ZeroPad(_, _)
ZeroPad(s, w) == IF Len(s) >= w THEN s ELSE ZeroPad(<<"0">> \o s, w)

\* f"{n:06d}": at least Width characters, never truncated.
Format06dCut(n) == LET s == ZeroPad(Str(n), Width)
                   IN  SubSeq(s, Len(s) - Width + 1, Len(s))

Format06d(n) == ZeroPad(Str(n), Width)

extract_num6(nm) ==
    LET nums == DIGITS_findall(nm)
    IN  IF nums = <<>> THEN None
        ELSE Format06d(IntOf(Join(nums)))

-----------------------------------------------------------------------------
(* Paths and the directory *)

Root == <<"/", "d">>

Sep == <<"/">>

\* The path of the directory entry called nm.
Path(nm) == Root \o Sep \o nm

HasSep(s) == \E k \in 1..Len(s) : s[k] = "/"

\* PurePath.suffix: from the last dot, unless the dot is first or last.
Suffix(nm) ==
    LET dots == {k \in 1..Len(nm) : nm[k] = "."}
    IN  IF dots = {} THEN <<>>
        ELSE LET k == CHOOSE d \in dots : \A e \in dots : e <= d
             IN  IF 1 < k /\ k < Len(nm) THEN SubSeq(nm, k, Len(nm)) ELSE <<>>

\* The pattern "*.jpg" of rglob.
Pattern == <<".", "j", "p", "g">>

Matches(nm) == EndsWith(nm, Pattern)

\* p.with_name(num6 + p.suffix.lower()): the new name, in p's directory.
with_name(p, n6) == n6 \o Lower(Suffix(p))

\* os.path.relpath(path, start) for a path below start: the common prefix
\* and the separator are dropped.
relpath_abs(path, start) == path

relpath(path, start) ==
    IF StartsWith(path, start \o Sep)
    THEN SubSeq(path, Len(start) + 2, Len(path))
    ELSE path

File(data) == [kind |-> "file", val |-> data]
Dir == [kind |-> "dir", val |-> <<>>]
Link(target) == [kind |-> "link", val |-> target]
Absent == [kind |-> "absent", val |-> <<>>]

Outside == <<>>

\* The entry of the directory a stored link target names: a bare name is
\* relative to the link's directory, a path below Root names its entry, any
\* other path names nothing that exists.
ResolveTarget(t) ==
    IF ~HasSep(t) THEN t
    ELSE IF StartsWith(t, Root \o Sep) /\ ~HasSep(relpath(t, Root))
         THEN relpath(t, Root)
         ELSE Outside

\* stat(2): the kind of what nm names once symlinks are followed; a chain
\* longer than the number of entries is a loop (ELOOP).
RECURSIVE Stat(_, _, _)
Stat(f, nm, fuel) ==
    IF nm \notin DOMAIN f THEN "missing"
    ELSE IF f[nm].kind # "link" THEN f[nm].kind
    ELSE IF fuel = 0 THEN "missing"
    ELSE Stat(f, ResolveTarget(f[nm].val), fuel - 1)

\* Path.exists, Path.is_file (both follow symlinks), Path.is_symlink.
exists(f, nm) == Stat(f, nm, Cardinality(DOMAIN f)) # "missing"

is_file(f, nm) == Stat(f, nm, Cardinality(DOMAIN f)) = "file"

is_symlink(f, nm) == nm \in DOMAIN f /\ f[nm].kind = "link"

readlink(f, nm) == f[nm].val

\* rename(2) of a regular file: fails when old is gone or new is a
\* directory, else atomically replaces whatever new names.
rename_ok(f, old, new) ==
    old \in DOMAIN f /\ ~(new \in DOMAIN f /\ f[new].kind = "dir")

rename(f, old, new) ==
    [n \in (DOMAIN f \ {old}) \cup {new} |-> IF n = new THEN f[old] ELSE f[n]]

unlink(f, nm) == [n \in DOMAIN f \ {nm} |-> f[n]]

symlink(f, target, nm) ==
    [n \in DOMAIN f \cup {nm} |-> IF n = nm THEN Link(target) ELSE f[n]]

\* root.rglob("*.jpg"): the entries whose name matches, in no fixed order.
rglob(f) == {n \in DOMAIN f : Matches(n)}

-----------------------------------------------------------------------------
(* The trees the runs start from *)

N_a1 == <<"a", "1", ".", "j", "p", "g">>
N_1 == <<"1", ".", "j", "p", "g">>
N_000001 == <<"0", "0", "0", "0", "0", "1", ".", "j", "p", "g">>
N_photo == <<"p", "h", "o", "t", "o", ".", "j", "p", "g">>
N_v0_2 == <<"v", "0", "_", "2", ".", "j", "p", "g">>
N_notes == <<"n", "2", ".", "t", "x", "t">>

NameSeq == <<N_a1, N_1, N_000001, N_photo, N_v0_2, N_notes>>

Names == {NameSeq[k] : k \in 1..Len(NameSeq)}

\* Stored link targets: the bare canonical name, the same file by its
\* absolute path, another entry of the directory, and a path that names
\* nothing.
T_stale == <<"/", "x", "/", "1", ".", "j", "p", "g">>

Targets == {N_000001, Path(N_000001), N_a1, T_stale}

Variants(nm) ==
    IF nm = N_notes THEN {Absent, File(nm)}
    ELSE IF nm \in {N_photo, N_v0_2} THEN {Absent, File(nm), Link(T_stale)}
    ELSE {Absent, File(nm)} \cup {Link(t) : t \in Targets}
         \cup (IF nm = N_000001 THEN {Dir} ELSE {})

MaxEntries == 3

\* The directories of at most MaxEntries entries over Names.
Trees ==
    LET all == Variants(NameSeq[1]) \X Variants(NameSeq[2])
                 \X Variants(NameSeq[3]) \X Variants(NameSeq[4])
                 \X Variants(NameSeq[5]) \X Variants(NameSeq[6])
        Present(v) == {k \in 1..Len(NameSeq) : v[k] # Absent}
        Index(nm) == CHOOSE k \in 1..Len(NameSeq) : NameSeq[k] = nm
    IN  {[nm \in {NameSeq[k] : k \in Present(v)} |-> v[Index(nm)]] :
            v \in {w \in all : Cardinality(Present(w)) <= MaxEntries}}

NoPrev == [dry |-> FALSE, ended |-> "none", renames |-> 0, conflicts |-> 0,
           fixed |-> 0, retargeted |-> 0, broken |-> 0, errors |-> 0,
           fs |-> <<>>]

\* main, lines 123-125: the mode is read and stage 1 starts its walk. k is
\* the number of system calls the environment may make fail.
InitWith(k) ==
    /\ fs \in Trees
    /\ fs0 = fs
    /\ dry_run \in BOOLEAN
    /\ pc = "scan1"
    /\ todo = rglob(fs)
    /\ changes = <<>>
    /\ conflicts = <<>>
    /\ i = 1
    /\ fixed = <<>>
    /\ retargeted = <<>>
    /\ broken = <<>>
    /\ errors = <<>>
    /\ cur = <<>>
    /\ run = 1
    /\ prev = NoPrev
    /\ faults = k
    /\ name = <<>>
    /\ num6 = None

Init == InitWith(0)

-----------------------------------------------------------------------------
(* Stage 1: normalize_real_files *)

\* One iteration of the scan loop, lines 30-49, on entry p.
ScanRealBody(p) ==
    LET n6 == extract_num6(p)
        newp == with_name(p, n6)
    IN  IF is_symlink(fs, p) \/ ~is_file(fs, p) \/ n6 = None \/ p = newp
        THEN UNCHANGED <<changes, conflicts>>
        ELSE IF exists(fs, newp)
             THEN /\ conflicts' = Append(conflicts, <<p, newp>>)
                  /\ UNCHANGED changes
             ELSE /\ changes' = Append(changes, <<p, newp>>)
                  /\ UNCHANGED conflicts

ScanReal ==
    /\ pc = "scan1"
    /\ \E p \in todo :
          /\ todo' = todo \ {p}
          /\ ScanRealBody(p)
    /\ UNCHANGED <<fs, fs0, dry_run, pc, i, fixed, retargeted, broken, errors,
                   cur, run, prev, faults, name, num6>>

\* The walk is exhausted: the rename loop of line 55 starts.
EndScanReal ==
    /\ pc = "scan1"
    /\ todo = {}
    /\ pc' = "rename"
    /\ i' = 1
    /\ UNCHANGED <<fs, fs0, dry_run, todo, changes, conflicts, fixed,
                   retargeted, broken, errors, cur, run, prev, faults, name,
                   num6>>

\* Lines 57-58 with the dry_run test dropped.
RenameEffectAlways(old, new) == rename(fs, old, new)

\* Lines 57-58: the tree after one queued rename, in either mode.
RenameEffect(old, new) == IF dry_run THEN fs ELSE rename(fs, old, new)

\* One iteration of the rename loop, lines 55-58. The loop is outside every
\* try block, so a failing rename ends the process.
RenameReal ==
    /\ pc = "rename"
    /\ i <= Len(changes)
    /\ LET old == changes[i][1]
           new == changes[i][2]
       IN  IF dry_run \/ rename_ok(fs, old, new)
           THEN /\ fs' = RenameEffect(old, new)
                /\ i' = i + 1
                /\ pc' = pc
           ELSE /\ pc' = "aborted"
                /\ UNCHANGED <<fs, i>>
    /\ UNCHANGED <<fs0, dry_run, todo, changes, conflicts, fixed, retargeted,
                   broken, errors, cur, run, prev, faults, name, num6>>

\* Line 60 and main, lines 127-128: stage 1 returns, stage 2 starts its walk.
ReturnReal ==
    /\ pc = "rename"
    /\ i > Len(changes)
    /\ pc' = "scan2"
    /\ todo' = rglob(fs)
    /\ UNCHANGED <<fs, fs0, dry_run, changes, conflicts, i, fixed, retargeted,
                   broken, errors, cur, run, prev, faults, name, num6>>

-----------------------------------------------------------------------------
(* Stage 2: fix_symlinks *)

\* Line 92 with the stored target compared to the absolute path.
NeedsRetargetAbs(current_target, rel) == current_target # Root \o Sep \o rel

\* Line 92: the link is rewritten unless it already stores rel.
NeedsRetarget(current_target, rel) == current_target # rel

\* Line 88: the expected canonical path is a regular file and no symlink.
IsPlainFile(f, nm) == exists(f, nm) /\ is_file(f, nm) /\ ~is_symlink(f, nm)

\* One iteration of the scan loop, lines 68-106, on entry p, up to the
\* first system call that changes the tree. current_target is what line 82
\* read, or None when os.readlink raised OSError (line 84).
ScanLinkBody(p, current_target) ==
    LET n6 == extract_num6(p)
        target_canonical == with_name(p, n6)
        rel == relpath(Path(target_canonical), Root)
    IN  IF ~is_symlink(fs, p) \/ n6 = None
        THEN UNCHANGED <<fixed, retargeted, broken, pc, cur>>
        ELSE IF IsPlainFile(fs, target_canonical)
             THEN IF NeedsRetarget(current_target, rel)
                  THEN IF dry_run
                       THEN /\ retargeted' = Append(retargeted, <<p, rel>>)
                            /\ UNCHANGED <<fixed, broken, pc, cur>>
                       ELSE /\ pc' = "unlink"
                            /\ cur' = <<p, rel>>
                            /\ UNCHANGED <<fixed, retargeted, broken>>
                  ELSE /\ fixed' = Append(fixed, p)
                       /\ UNCHANGED <<retargeted, broken, pc, cur>>
             ELSE /\ broken' = Append(broken, <<p, current_target, target_canonical>>)
                  /\ UNCHANGED <<fixed, retargeted, pc, cur>>

ScanLink ==
    /\ pc = "scan2"
    /\ \E p \in todo :
          /\ todo' = todo \ {p}
          /\ ScanLinkBody(p, IF is_symlink(fs, p) THEN readlink(fs, p) ELSE None)
    /\ UNCHANGED <<fs, fs0, dry_run, changes, conflicts, i, errors, run, prev,
                   faults, name, num6>>

\* Lines 96-97: the old link is removed.
Unlink ==
    /\ pc = "unlink"
    /\ fs' = IF exists(fs, cur[1]) \/ is_symlink(fs, cur[1])
             THEN unlink(fs, cur[1]) ELSE fs
    /\ pc' = "symlink"
    /\ UNCHANGED <<fs0, dry_run, todo, changes, conflicts, i, fixed,
                   retargeted, broken, errors, cur, run, prev, faults, name,
                   num6>>

\* Lines 98-99: the link is created again with target rel and recorded;
\* os.symlink raises FileExistsError when the name is taken.
SymlinkCreate ==
    /\ pc = "symlink"
    /\ IF cur[1] \in DOMAIN fs
       THEN /\ errors' = Append(errors, <<"LINK", cur[1]>>)
            /\ UNCHANGED <<fs, retargeted>>
       ELSE /\ fs' = symlink(fs, cur[2], cur[1])
            /\ retargeted' = Append(retargeted, cur)
            /\ UNCHANGED errors
    /\ pc' = "scan2"
    /\ cur' = <<>>
    /\ UNCHANGED <<fs0, dry_run, todo, changes, conflicts, i, fixed, broken,
                   run, prev, faults, name, num6>>

-----------------------------------------------------------------------------
(* main *)

\* Lines 130-139: the walk of stage 2 is exhausted and the summary is printed.
Summary ==
    /\ pc = "scan2"
    /\ todo = {}
    /\ pc' = "done"
    /\ UNCHANGED <<fs, fs0, dry_run, todo, changes, conflicts, i, fixed,
                   retargeted, broken, errors, cur, run, prev, faults, name,
                   num6>>

Report(ended) ==
    [dry |-> dry_run, ended |-> ended, renames |-> Len(changes),
     conflicts |-> Len(conflicts), fixed |-> Len(fixed),
     retargeted |-> Len(retargeted), broken |-> Len(broken),
     errors |-> Len(errors), fs |-> fs]

\* The tool is invoked a second time, with --apply, on the tree the first
\* invocation left (main, lines 112-125).
Rerun ==
    /\ run = 1
    /\ pc \in {"done", "aborted", "crashed"}
    /\ run' = 2
    /\ prev' = Report(pc)
    /\ dry_run' = FALSE
    /\ pc' = "scan1"
    /\ todo' = rglob(fs)
    /\ changes' = <<>>
    /\ conflicts' = <<>>
    /\ i' = 1
    /\ fixed' = <<>>
    /\ retargeted' = <<>>
    /\ broken' = <<>>
    /\ errors' = <<>>
    /\ cur' = <<>>
    /\ UNCHANGED <<fs, fs0, faults, name, num6>>

Next ==
    \/ ScanReal
    \/ EndScanReal
    \/ RenameReal
    \/ ReturnReal
    \/ ScanLink
    \/ Unlink
    \/ SymlinkCreate
    \/ Summary
    \/ Rerun

Spec == Init /\ [][Next]_vars

-----------------------------------------------------------------------------
(* Failing system calls and interruption *)

MaxFaults == 1

\* Lines 32-43 raise (an OSError of is_symlink, is_file or exists that
\* pathlib does not swallow): line 51 logs it and the walk goes on.
InspectFailReal ==
    /\ pc = "scan1"
    /\ faults > 0
    /\ \E p \in todo :
          /\ todo' = todo \ {p}
          /\ errors' = Append(errors, <<"REAL", p>>)
    /\ faults' = faults - 1
    /\ UNCHANGED <<fs, fs0, dry_run, pc, changes, conflicts, i, fixed,
                   retargeted, broken, cur, run, prev, name, num6>>

\* old.rename(new) of line 58 raises: nothing catches it, the traceback
\* ends the process before stage 2 and the summary.
RenameFail ==
    /\ pc = "rename"
    /\ i <= Len(changes)
    /\ ~dry_run
    /\ faults > 0
    /\ faults' = faults - 1
    /\ pc' = "aborted"
    /\ UNCHANGED <<fs, fs0, dry_run, todo, changes, conflicts, i, fixed,
                   retargeted, broken, errors, cur, run, prev, name, num6>>

\* Lines 70-88 raise: line 108 logs it and the walk goes on.
InspectFailLink ==
    /\ pc = "scan2"
    /\ faults > 0
    /\ \E p \in todo :
          /\ todo' = todo \ {p}
          /\ errors' = Append(errors, <<"LINK", p>>)
    /\ faults' = faults - 1
    /\ UNCHANGED <<fs, fs0, dry_run, pc, changes, conflicts, i, fixed,
                   retargeted, broken, cur, run, prev, name, num6>>

\* os.readlink of line 82 raises OSError: line 84 sets current_target to
\* None, nothing is logged and the iteration goes on.
ReadlinkFail ==
    /\ pc = "scan2"
    /\ faults > 0
    /\ \E p \in todo :
          /\ is_symlink(fs, p)
          /\ todo' = todo \ {p}
          /\ ScanLinkBody(p, None)
    /\ faults' = faults - 1
    /\ UNCHANGED <<fs, fs0, dry_run, changes, conflicts, i, errors, run, prev,
                   name, num6>>

\* p.unlink() of line 97 raises: line 108 logs it, the link is as it was.
UnlinkFail ==
    /\ pc = "unlink"
    /\ faults > 0
    /\ faults' = faults - 1
    /\ errors' = Append(errors, <<"LINK", cur[1]>>)
    /\ pc' = "scan2"
    /\ cur' = <<>>
    /\ UNCHANGED <<fs, fs0, dry_run, todo, changes, conflicts, i, fixed,
                   retargeted, broken, run, prev, name, num6>>

\* os.symlink of line 98 raises after the unlink of line 97: line 108 logs
\* it, the link is gone.
SymlinkFail ==
    /\ pc = "symlink"
    /\ faults > 0
    /\ faults' = faults - 1
    /\ errors' = Append(errors, <<"LINK", cur[1]>>)
    /\ pc' = "scan2"
    /\ cur' = <<>>
    /\ UNCHANGED <<fs, fs0, dry_run, todo, changes, conflicts, i, fixed,
                   retargeted, broken, run, prev, name, num6>>

\* The first --apply invocation is killed between two system calls.
Crash ==
    /\ run = 1
    /\ ~dry_run
    /\ pc \in {"scan1", "rename", "scan2", "unlink", "symlink"}
    /\ pc' = "crashed"
    /\ UNCHANGED <<fs, fs0, dry_run, todo, changes, conflicts, i, fixed,
                   retargeted, broken, errors, cur, run, prev, faults, name,
                   num6>>

InitF == InitWith(MaxFaults)

\* Runs in which system calls may fail.
NextF ==
    \/ Next
    \/ InspectFailReal
    \/ RenameFail
    \/ InspectFailLink
    \/ ReadlinkFail
    \/ UnlinkFail
    \/ SymlinkFail

SpecF == InitF /\ [][NextF]_vars

\* Runs in which no system call fails and the first invocation may be killed.
NextCrash ==
    \/ Next
    \/ Crash

SpecCrash == Init /\ [][NextCrash]_vars

-----------------------------------------------------------------------------
(* extract_num6 on its own *)

Alphabet == {"0", "7", "a", "."}

MaxLen == 8

Strings == UNION {[1..n -> Alphabet] : n \in 0..MaxLen}

InitX ==
    /\ name \in Strings
    /\ num6 = None
    /\ pc = "extract"
    /\ fs = <<>>
    /\ fs0 = <<>>
    /\ dry_run = TRUE
    /\ todo = {}
    /\ changes = <<>>
    /\ conflicts = <<>>
    /\ i = 1
    /\ fixed = <<>>
    /\ retargeted = <<>>
    /\ broken = <<>>
    /\ errors = <<>>
    /\ cur = <<>>
    /\ run = 1
    /\ prev = NoPrev
    /\ faults = 0

\* Lines 36 and 74: extract_num6 is applied to a name.
Extract ==
    /\ pc = "extract"
    /\ num6' = extract_num6(name)
    /\ pc' = "extracted"
    /\ UNCHANGED <<fs, fs0, dry_run, todo, changes, conflicts, i, fixed,
                   retargeted, broken, errors, cur, run, prev, faults, name>>

NextX == Extract

SpecX == InitX /\ [][NextX]_vars

-----------------------------------------------------------------------------
(* What the claims speak of *)

RealFiles(f) == {n \in DOMAIN f : f[n].kind = "file"}

Links(f) == {n \in DOMAIN f : f[n].kind = "link"}

Contents(f) == {f[n].val : n \in RealFiles(f)}

\* The canonical file name of an entry: its 6-digit name and ".jpg".
CanonName(nm) == extract_num6(nm) \o Pattern

HasCanon(nm) == Matches(nm) /\ extract_num6(nm) # None

Firsts(s) == {s[k][1] : k \in 1..Len(s)}

Members(s) == {s[k] : k \in 1..Len(s)}

Counts ==
    <<Len(changes), Len(conflicts), Len(fixed), Len(retargeted), Len(broken)>>

PrevCounts ==
    <<prev.renames, prev.conflicts, prev.fixed, prev.retargeted, prev.broken>>

FirstApplyDone == run = 1 /\ ~dry_run /\ pc = "done"

\* C1. Conflict preservation: when a first --apply run has ended, no two
\* queued renames share a target, every real file that was not renamed is
\* still there under its name, and no real file's content is lost (the
\* directory holds as many real files, with the same contents, as at the
\* start), also when the canonical target did not exist at scan time.
C1_ConflictPreservation ==
    FirstApplyDone =>
        /\ \A a, b \in 1..Len(changes) :
              changes[a][2] = changes[b][2] => a = b
        /\ Cardinality(RealFiles(fs)) = Cardinality(RealFiles(fs0))
        /\ Contents(fs) = Contents(fs0)

\* C2. Preview/apply equivalence: a preview run followed by an --apply run
\* from the same tree report the same five counts (renames, conflicts,
\* already correct, retargeted, broken). Stated for the initial trees in
\* which no symlink bears a canonical name, where stage 1 replaces no entry.
C2_PreviewApplySameCounts ==
    (run = 2 /\ prev.dry /\ prev.ended = "done" /\ pc = "done"
        /\ \A L \in Links(fs0) : ~(HasCanon(L) /\ CanonName(L) = L)) =>
        Counts = PrevCounts

\* C3. Preview purity: in every state of a run without --apply the tree is
\* the initial tree, and the process never stands at the unlink or at the
\* symlink-create of a link replacement.
C3_PreviewPurity ==
    dry_run => (fs = fs0 /\ pc \notin {"unlink", "symlink"})

C3_Witness ==
    /\ dry_run
    /\ pc = "done"
    /\ Len(changes) > 0
    /\ Len(retargeted) > 0

\* C4. Idempotence: after a first --apply run that ended with no conflict
\* and no broken-link record, a second --apply run queues no rename, records
\* no retarget and never changes the tree.
C4_Idempotence ==
    (run = 2 /\ ~prev.dry /\ prev.ended = "done"
        /\ prev.conflicts = 0 /\ prev.broken = 0) =>
        (changes = <<>> /\ retargeted = <<>> /\ fs = prev.fs)

C4_Witness ==
    /\ run = 2
    /\ pc = "done"
    /\ ~prev.dry
    /\ prev.ended = "done"
    /\ prev.conflicts = 0
    /\ prev.broken = 0
    /\ prev.renames > 0
    /\ prev.retargeted > 0
    /\ Len(fixed) > 0

\* C5. Fault isolation: a failing file-system operation never ends a run
\* before the later entries, the following stage and the summary are done.
C5_FaultIsolation == pc # "aborted"

C7_OccupiedTargetKept ==
    FirstApplyDone =>
        \A p \in RealFiles(fs0) :
            (HasCanon(p) /\ CanonName(p) # p /\ CanonName(p) \in DOMAIN fs0) =>
                /\ p \in Firsts(conflicts)
                /\ p \notin Firsts(changes)
                /\ CanonName(p) \in DOMAIN fs
                /\ fs[CanonName(p)] = fs0[CanonName(p)]

\* C8. Crash-resume safety: when a first --apply run was killed between two
\* system calls, none of which failed, and a second --apply run has ended,
\* no symlink of the initial tree is missing: every one that no rename of
\* stage 1 targets is still a symlink.
C8_ResumeKeepsLinks ==
    (run = 2 /\ prev.ended = "crashed" /\ pc = "done") =>
        \A L \in Links(fs0) :
            (\A p \in RealFiles(fs0) : ~(HasCanon(p) /\ CanonName(p) = L)) =>
                is_symlink(fs, L)

\* The digits of a name in order of appearance, without leading zeros, and
\* left-padded with zeros to at least Width characters.
C9_Digits(s) == SelectSeq(s, IsDigit)

RECURSIVE C9_Strip(_)
C9_Strip(s) == IF s # <<>> /\ Head(s) = "0" THEN C9_Strip(Tail(s)) ELSE s

C9_Pad(s) ==
    LET w == IF Len(s) > Width THEN Len(s) ELSE Width
    IN  [k \in 1..w |-> IF k <= w - Len(s) THEN "0" ELSE s[k - (w - Len(s))]]

\* C9. Digit extraction: extract_num6 returns None iff the name holds no
\* digit; otherwise the decimal digits of the name in order of appearance,
\* read as one integer and printed zero-padded to at least 6 characters,
\* never truncated; and the result is a fixed point of extract_num6.
C9_ExtractCorrect ==
    pc = "extracted" =>
        /\ num6 = None <=> C9_Digits(name) = <<>>
        /\ num6 # None =>
              /\ num6 = C9_Pad(C9_Strip(C9_Digits(name)))
              /\ Len(num6) >= Width
              /\ extract_num6(num6 \o Pattern) = num6

C9_Witness ==
    /\ pc = "extracted"
    /\ Len(DIGITS_findall(name)) >= 2
    /\ Len(num6) > Width

\* C10. A .jpg symlink of the initial tree whose name is its own canonical
\* name is never recorded already correct nor retargeted, and when the first
\* run has ended it is recorded broken and is unmodified.
C10_CanonicalLinkBroken ==
    \A L \in Links(fs0) :
        (run = 1 /\ HasCanon(L) /\ CanonName(L) = L) =>
            /\ L \notin Members(fixed)
            /\ L \notin Firsts(retargeted)
            /\ pc = "done" =>
                  /\ L \in Firsts(broken)
                  /\ L \in DOMAIN fs
                  /\ fs[L] = fs0[L]

====
